---- MODULE Spec2Model ----
(***************************************************************************)
(* Certification tracker: the browser-local certification repository       *)
(* (client/src/lib/localData.ts), the browser-local user repository        *)
(* (client/src/lib/localAuth.ts), the status classifier of the             *)
(* certification card and the role-scoped user and admin views.            *)
(*                                                                         *)
(* JavaScript values are modelled as strings.  An object is a record over  *)
(* all the field names of its type; a field holds Absent when the object   *)
(* has no such key and Undefined when the key is there with the value      *)
(* undefined (the two differ under object spread and agree when read).     *)
(* A calendar date "YYYY-MM-DD" is the string DateStr(d) of its day number.*)
(***************************************************************************)
EXTENDS Integers, Sequences, FiniteSets, TLC

VARIABLES
    certs,      \* localStorage["certtrack_certs_v1"], parsed: a sequence of certifications
    issued,     \* how many ids uuidv4 has handed out
    users,      \* localStorage["certtrack_users_v1"]: whether the key is set, and its records
    now,        \* the clock, in ticks of TicksPerDay a day (UTC)
    tz,         \* the browser's offset from UTC, in ticks (local time is now + tz)
    session,    \* the user of the auth context, or NoSession
    page,       \* the state of the page shown: query data, editingCert, deletingCert
    ret         \* what the last operation was called with and what it returned or threw

vars == <<certs, issued, users, now, tz, session, page, ret>>

----------------------------------------------------------------------------
(* Bounds of the model.                                                    *)

MaxCerts == 2       \* certifications held in the store at once
MaxIssued == 3      \* ids handed out in one behaviour
TicksPerDay == 2    \* clock resolution: tick 0 of a day is midnight exactly
MaxUsers == 4       \* accounts the user store holds at most
MaxClock == 3       \* last clock tick of a behaviour of the views
MaxTz == 1          \* largest offset from UTC, in ticks, east or west
MaxPast == 6        \* earliest expiration day shown, in days before day 0
MaxExpDay == 95     \* latest expiration day shown
MaxDrift == 1       \* days a stored date may move back through repeated edits
MaxList == 2        \* certifications in a list a page renders
MaxRedirects == 3   \* Redirects followed in one render before giving up

----------------------------------------------------------------------------
(* JavaScript values.                                                      *)

Absent == "<absent>"
Undefined == "<undefined>"

\* v || d
Or(v, d) == IF v \in {Absent, Undefined, ""} THEN d ELSE v

\* !v
Falsy(v) == v \in {Absent, Undefined, ""}

\* The "YYYY-MM-DD" string of day number d.
DateStr(d) == "day" \o ToString(d)

\* new Date().toISOString().slice(0, 10): the UTC calendar date of the clock.
TodayISO(t) == DateStr(t \div TicksPerDay)

\* uuidv4(): the n-th id it hands out; no two calls return the same id.
uuidv4(n) == "uuid" \o ToString(n)

----------------------------------------------------------------------------
(* Certification repository: client/src/lib/localData.ts                   *)

CertFields ==
    {"id", "userId", "name", "issuingOrganization", "credentialId",
     "issueDate", "expirationDate", "certificateUrl", "notes"}

\* A Partial<Certification> that names no field.
NoData == [f \in CertFields |-> Absent]

\* JSON.stringify then JSON.parse of one object: keys holding undefined are dropped.
JsonRoundTrip(c) == [f \in DOMAIN c |-> IF c[f] = Undefined THEN Absent ELSE c[f]]

saveCerts(cs) == [i \in 1..Len(cs) |-> JsonRoundTrip(cs[i])]

\* Array.prototype.findIndex on the id: the first index, or 0 for -1.
FindIndex_Last(cs, id) ==
    IF \E i \in 1..Len(cs) : cs[i].id = id
    THEN CHOOSE i \in 1..Len(cs) :
            cs[i].id = id /\ \A j \in 1..(i - 1) : cs[j].id # id
    ELSE Len(cs)
FindIndex(cs, id) ==
    IF \E i \in 1..Len(cs) : cs[i].id = id
    THEN CHOOSE i \in 1..Len(cs) :
            cs[i].id = id /\ \A j \in 1..(i - 1) : cs[j].id # id
    ELSE 0

getAllCertifications(cs) == cs

getCertificationsByUser_NoFilter(cs, userId) == IF Falsy(userId) THEN <<>> ELSE cs
getCertificationsByUser(cs, userId) ==
    IF Falsy(userId) THEN <<>>
    ELSE SelectSeq(cs, LAMBDA c : c.userId = userId)

\* const id = uuidv4(): the id of the next certification, whatever the store holds.
NewId_ByCount(cs, n) == uuidv4(Len(cs) + 1)
NewId(cs, n) == uuidv4(n)

\* The object literal of createCertification.
NewCert(data, id, t) ==
    [id |-> id,
     userId |-> Or(data.userId, ""),
     name |-> Or(data.name, ""),
     issuingOrganization |-> Or(data.issuingOrganization, ""),
     credentialId |-> Or(data.credentialId, ""),
     issueDate |-> Or(data.issueDate, TodayISO(t)),
     expirationDate |-> Or(data.expirationDate, TodayISO(t)),
     certificateUrl |-> Absent,
     notes |-> Absent]

\* { ...old, ...data }
Spread_Replace(old, data) == [data EXCEPT !.id = old.id]
Spread(old, data) ==
    [f \in CertFields |-> IF data[f] = Absent THEN old[f] ELSE data[f]]

\* certs.filter((c) => c.id !== id)
WithoutId_Splice(cs, id) ==
    LET i == IF FindIndex(cs, id) = 0 THEN Len(cs) ELSE FindIndex(cs, id)
    IN SubSeq(cs, 1, i - 1) \o SubSeq(cs, i + 1, Len(cs))
WithoutId(cs, id) == SelectSeq(cs, LAMBDA c : c.id # id)

\* The inputs the operations are called with.
CreateInputs ==
    { NoData,
      [NoData EXCEPT !.id = "mine", !.userId = "2", !.name = "AWS",
                     !.issuingOrganization = "Amazon", !.credentialId = "X1",
                     !.issueDate = DateStr(0), !.expirationDate = DateStr(1),
                     !.certificateUrl = "http://c", !.notes = "n"],
      [NoData EXCEPT !.userId = "3", !.name = "PMP", !.issuingOrganization = "PMI",
                     !.issueDate = DateStr(0), !.expirationDate = DateStr(2)] }

IssuedIds == {uuidv4(n) : n \in 1..issued}

\* An id no certification ever had.
MissingId == "uuid-none"

UpdateInputs ==
    { [NoData EXCEPT !.expirationDate = DateStr(2)],
      [NoData EXCEPT !.id = uuidv4(1), !.userId = "3", !.notes = Undefined] }

UserIdInputs == {Absent, "", "2", "3"}

\* What the certification repository leaves alone.
others == <<users, now, tz, session, page>>

\* localStorage without the users key.
NoUsers == [stored |-> FALSE, list |-> <<>>]

NoSession == [id |-> Absent, role |-> Absent]

NoPage == [name |-> "/", query |-> <<>>, editingCert |-> <<>>, deletingCert |-> <<>>]

NoRet == [op |-> "none", id |-> Absent, data |-> NoData, status |-> "ok",
          error |-> "", value |-> <<>>]

\* createCertification: the stored list and the record returned.
createCertification(cs, data, id, t) ==
    LET cert == NewCert(data, id, t)
    IN [certs |-> saveCerts(Append(cs, cert)), status |-> "ok", error |-> "",
        value |-> <<cert>>]

\* updateCertification: throws when findIndex finds nothing, else merges and saves.
updateCertification(cs, id, data) ==
    LET idx == FindIndex(cs, id)
    IN IF idx = 0
       THEN [certs |-> cs, status |-> "error", error |-> "Not found", value |-> <<>>]
       ELSE LET merged == [cs EXCEPT ![idx] = Spread(cs[idx], data)]
            IN [certs |-> saveCerts(merged), status |-> "ok", error |-> "",
                value |-> <<merged[idx]>>]

deleteCertification(cs, id) ==
    [certs |-> saveCerts(WithoutId(cs, id)), status |-> "ok", error |-> "",
     value |-> <<>>]

GetAllCertifications ==
    /\ ret' = [NoRet EXCEPT !.op = "getAll", !.value = getAllCertifications(certs)]
    /\ UNCHANGED <<certs, issued, others>>

GetCertificationsByUser(userId) ==
    /\ ret' = [NoRet EXCEPT !.op = "getByUser", !.id = userId,
                            !.value = getCertificationsByUser(certs, userId)]
    /\ UNCHANGED <<certs, issued, others>>

CreateCertification(data) ==
    /\ Len(certs) < MaxCerts
    /\ issued < MaxIssued
    /\ LET r == createCertification(certs, data, NewId(certs, issued + 1), now)
       IN /\ certs' = r.certs
          /\ ret' = [NoRet EXCEPT !.op = "create", !.data = data, !.value = r.value]
    /\ issued' = issued + 1
    /\ UNCHANGED others

UpdateCertification(id, data) ==
    LET r == updateCertification(certs, id, data)
    IN /\ certs' = r.certs
       /\ ret' = [NoRet EXCEPT !.op = "update", !.id = id, !.data = data,
                               !.status = r.status, !.error = r.error,
                               !.value = r.value]
       /\ UNCHANGED <<issued, others>>

DeleteCertification(id) ==
    LET r == deleteCertification(certs, id)
    IN /\ certs' = r.certs
       /\ ret' = [NoRet EXCEPT !.op = "delete", !.id = id]
       /\ UNCHANGED <<issued, others>>

Init ==
    /\ certs = <<>>
    /\ issued = 0
    /\ users = NoUsers
    /\ now = 0
    /\ tz = 0
    /\ session = NoSession
    /\ page = NoPage
    /\ ret = NoRet

Next ==
    \/ GetAllCertifications
    \/ \E u \in UserIdInputs : GetCertificationsByUser(u)
    \/ \E d \in CreateInputs : CreateCertification(d)
    \/ \E i \in IssuedIds \cup {MissingId}, d \in UpdateInputs :
            UpdateCertification(i, d)
    \/ \E i \in IssuedIds \cup {MissingId} : DeleteCertification(i)

Spec == Init /\ [][Next]_vars

----------------------------------------------------------------------------
(* Status classifier: client/src/components/certification-card.tsx         *)

DayRange == (0 - MaxPast)..MaxExpDay

\* parseISO of a date-only string: midnight of that day in local time, in ticks.
parseISO(s) == TicksPerDay * (CHOOSE d \in DayRange : DateStr(d) = s)

\* new Date(), read in local time.
LocalNow == now + tz

Abs(x) == IF x < 0 THEN 0 - x ELSE x

\* date-fns compareLocalAsc: the sign of l - r.
compareLocalAsc(l, r) == IF l < r THEN 0 - 1 ELSE IF l > r THEN 1 ELSE 0

\* date-fns differenceInCalendarDays: local calendar days from r to l.
differenceInCalendarDays(l, r) == (l \div TicksPerDay) - (r \div TicksPerDay)

\* date-fns differenceInDays: the full days from r to l, truncated towards zero.
differenceInDays(l, r) ==
    LET sign == compareLocalAsc(l, r)
        difference == Abs(differenceInCalendarDays(l, r))
        moved == l - sign * difference * TicksPerDay
        isLastDayNotFull == IF compareLocalAsc(moved, r) = 0 - sign THEN 1 ELSE 0
    IN sign * (difference - isLastDayNotFull)

\* getStatusInfo of the certification card, on daysUntilExpiration.
getStatusInfo_Strict(d) ==
    IF d < 0 THEN [status |-> "expired", label |-> "Expired"]
    ELSE IF d < 30 THEN [status |-> "critical", label |-> ToString(d) \o " days left"]
    ELSE IF d <= 60 THEN [status |-> "warning", label |-> ToString(d) \o " days left"]
    ELSE IF d <= 90 THEN [status |-> "soon", label |-> ToString(d) \o " days left"]
    ELSE [status |-> "active", label |-> "Active"]
getStatusInfo(d) ==
    IF d < 0 THEN [status |-> "expired", label |-> "Expired"]
    ELSE IF d <= 30 THEN [status |-> "critical", label |-> ToString(d) \o " days left"]
    ELSE IF d <= 60 THEN [status |-> "warning", label |-> ToString(d) \o " days left"]
    ELSE IF d <= 90 THEN [status |-> "soon", label |-> ToString(d) \o " days left"]
    ELSE [status |-> "active", label |-> "Active"]

\* One render of CertificationCard for a certification expiring on day e.
CertificationCard(e) ==
    /\ LET expirationDate == parseISO(DateStr(e))
           daysUntilExpiration == differenceInDays(expirationDate, LocalNow)
           statusInfo == getStatusInfo(daysUntilExpiration)
       IN ret' = [op |-> "card", expirationDate |-> DateStr(e), at |-> LocalNow,
                  days |-> daysUntilExpiration,
                  status |-> statusInfo.status, label |-> statusInfo.label]
    /\ UNCHANGED <<certs, issued, users, now, tz, session, page>>

\* The clock of the browser advances.
ClockTick ==
    /\ now < MaxClock
    /\ now' = now + 1
    /\ UNCHANGED <<certs, issued, users, tz, session, page, ret>>

NoCard == [op |-> "none", expirationDate |-> Absent, at |-> 0, days |-> 0,
           status |-> Absent, label |-> Absent]

InitClassify ==
    /\ certs = <<>>
    /\ issued = 0
    /\ users = NoUsers
    /\ now \in 0..MaxClock
    /\ tz \in (0 - MaxTz)..MaxTz
    /\ session = NoSession
    /\ page = NoPage
    /\ ret = NoCard

NextClassify ==
    \/ \E e \in DayRange : CertificationCard(e)
    \/ ClockTick

SpecClassify == InitClassify /\ [][NextClassify]_vars

\* C1: for every day difference d the card's classifier returns exactly one of
\* the five buckets, with the cut points d < 0 expired, 0..30 critical,
\* 31..60 warning, 61..90 soon, above 90 active.
C1_CutPoints ==
    ret.op = "card" =>
        /\ ret.status \in {"expired", "critical", "warning", "soon", "active"}
        /\ ret.status = "expired" <=> ret.days < 0
        /\ ret.status = "critical" <=> (0 <= ret.days /\ ret.days <= 30)
        /\ ret.status = "warning" <=> (31 <= ret.days /\ ret.days <= 60)
        /\ ret.status = "soon" <=> (61 <= ret.days /\ ret.days <= 90)
        /\ ret.status = "active" <=> ret.days > 90

C1_Witness ==
    /\ ret.op = "card"
    /\ ret.days = 30
    /\ ret.status = "critical"

\* The local calendar day on which the last card was evaluated.
CardToday == ret.at \div TicksPerDay

\* C16: a certification expiring on the calendar date 29 days after today is
\* shown as critical with the label "29 days left" at any time of day; one
\* that expired 5 days before today is shown as expired with the label
\* "Expired".
C16_CalendarDayExamples ==
    ret.op = "card" =>
        /\ ret.expirationDate = DateStr(CardToday + 29) =>
               ret.status = "critical" /\ ret.label = "29 days left"
        /\ ret.expirationDate = DateStr(CardToday - 5) =>
               ret.status = "expired" /\ ret.label = "Expired"

\* The card of a certification expiring 29 calendar days after today,
\* evaluated after midnight, says "28 days left".
C16_Witness ==
    /\ ret.op = "card"
    /\ ret.expirationDate = DateStr(CardToday + 29)
    /\ ret.at % TicksPerDay # 0
    /\ ret.status = "critical"
    /\ ret.label = "28 days left"

----------------------------------------------------------------------------
(* User repository: client/src/lib/localAuth.ts                            *)

\* The two demo accounts loadUsers writes when the users key is not set.
demo ==
    << [id |-> "1", username |-> "admin", fullName |-> "Administrator",
        email |-> "admin@example.com", role |-> "admin", password |-> "admin123"],
       [id |-> "2", username |-> "john", fullName |-> "John Doe",
        email |-> "john@example.com", role |-> "user", password |-> "user123"] >>

\* A users key written before records carried a password (StoredUser declares
\* password optional): the account of "carol" has none.
legacy ==
    [stored |-> TRUE,
     list |-> << demo[1],
                 [id |-> "2", username |-> "carol", fullName |-> "Carol Roe",
                  email |-> "carol@example.com", role |-> "user",
                  password |-> Absent] >>]

\* loadUsers: the records of the key, or the demo accounts when it is not set.
loadUsers_Reseed(raw) == demo
loadUsers(raw) == IF raw.stored THEN raw.list ELSE demo

\* What localStorage holds after loadUsers ran: it writes the demo accounts.
afterLoad(raw) == [stored |-> TRUE, list |-> loadUsers(raw)]

saveUsers(us) == [stored |-> TRUE, list |-> [i \in 1..Len(us) |-> JsonRoundTrip(us[i])]]

\* Property names every object inherits from Object.prototype.
InheritedKeys == {"constructor"}

OwnIndex(us, username) ==
    IF \E i \in 1..Len(us) : us[i].username = username
    THEN CHOOSE i \in 1..Len(us) : us[i].username = username
    ELSE 0

\* What users[username] of an inherited key is: an object without account fields.
InheritedProperty ==
    [id |-> Absent, username |-> Absent, fullName |-> Absent, email |-> Absent,
     role |-> Absent, password |-> Absent]

\* users[username], as a sequence of none or one: an own record, else a
\* property inherited from Object.prototype, else undefined.
Lookup(us, username) ==
    IF OwnIndex(us, username) # 0 THEN <<us[OwnIndex(us, username)]>>
    ELSE IF username \in InheritedKeys THEN <<InheritedProperty>>
    ELSE <<>>

\* if (users[username])
UsernameTaken_Never(us, username) == OwnIndex(us, username) = 0 /\ Lookup(us, username) # <<>>
UsernameTaken(us, username) == Lookup(us, username) # <<>>

\* user.password !== data.password, negated.
PasswordMatches_Legacy(user, password) ==
    user.password = Absent \/ user.password = password
PasswordMatches(user, password) == user.password = password

\* const { password, ...publicUser } = user
publicUser_Keep(user) == user
publicUser(user) == [f \in DOMAIN user \ {"password"} |-> user[f]]

\* users[username] = user: in place for a key the object has, else a new last key.
Assign(us, username, user) ==
    IF OwnIndex(us, username) # 0
    THEN [us EXCEPT ![OwnIndex(us, username)] = user]
    ELSE Append(us, user)

\* String(Object.keys(users).length + 1)
NextUserId_AfterSeed(us) == ToString(Len(demo) + 1)
NextUserId(us) == ToString(Len(us) + 1)

NoCredentials == [username |-> Absent, password |-> Absent,
                  fullName |-> Absent, email |-> Absent]

NoAuthRet == [op |-> "none", data |-> NoCredentials, status |-> "ok",
              error |-> "", value |-> <<>>]

UsernameInputs == {"admin", "john", "carol", "alice", "bob", "constructor"}
PasswordInputs == {"admin123", "user123", "pw"}
FullNameInputs == {"Alice A", "Mallory"}

RegisterInputs ==
    { [username |-> u, password |-> p, fullName |-> n, email |-> "x@example.com"] :
        u \in UsernameInputs, p \in PasswordInputs \ {"admin123"}, n \in FullNameInputs }

LoginInputs ==
    { [NoCredentials EXCEPT !.username = u, !.password = p] :
        u \in UsernameInputs, p \in PasswordInputs }

\* What the user repository leaves alone.
authOthers == <<certs, issued, now, tz, session, page>>

\* registerLocal: what localStorage holds afterwards and what the call returns or throws.
registerLocal(raw, data) ==
    LET us == loadUsers(raw)
    IN IF UsernameTaken(us, data.username)
       THEN [users |-> afterLoad(raw), status |-> "error",
             error |-> "409: Username already exists", value |-> <<>>]
       ELSE LET user == [id |-> NextUserId(us), username |-> data.username,
                         fullName |-> data.fullName, email |-> data.email,
                         role |-> "user", password |-> data.password]
            IN [users |-> saveUsers(Assign(us, data.username, user)),
                status |-> "ok", error |-> "", value |-> <<publicUser(user)>>]

loginLocal(raw, data) ==
    LET user == Lookup(loadUsers(raw), data.username)
    IN IF user = <<>>
       THEN [users |-> afterLoad(raw), status |-> "error",
             error |-> "401: Invalid credentials", value |-> <<>>]
       ELSE IF ~PasswordMatches(user[1], data.password)
       THEN [users |-> afterLoad(raw), status |-> "error",
             error |-> "401: Invalid credentials", value |-> <<>>]
       ELSE [users |-> afterLoad(raw), status |-> "ok", error |-> "",
             value |-> <<publicUser(user[1])>>]

getAllUsers(raw) ==
    LET us == loadUsers(raw)
    IN [users |-> afterLoad(raw), status |-> "ok", error |-> "",
        value |-> [i \in 1..Len(us) |-> publicUser(us[i])]]

RegisterLocal(data) ==
    LET r == registerLocal(users, data)
    IN /\ Len(r.users.list) <= MaxUsers
       /\ users' = r.users
       /\ ret' = [NoAuthRet EXCEPT !.op = "register", !.data = data,
                       !.status = r.status, !.error = r.error, !.value = r.value]
       /\ UNCHANGED authOthers

LoginLocal(data) ==
    LET r == loginLocal(users, data)
    IN /\ users' = r.users
       /\ ret' = [NoAuthRet EXCEPT !.op = "login", !.data = data,
                       !.status = r.status, !.error = r.error, !.value = r.value]
       /\ UNCHANGED authOthers

GetAllUsers ==
    LET r == getAllUsers(users)
    IN /\ users' = r.users
       /\ ret' = [NoAuthRet EXCEPT !.op = "getAllUsers", !.value = r.value]
       /\ UNCHANGED authOthers

InitAuth ==
    /\ certs = <<>>
    /\ issued = 0
    /\ users \in {NoUsers, legacy}
    /\ now = 0
    /\ tz = 0
    /\ session = NoSession
    /\ page = NoPage
    /\ ret = NoAuthRet

NextAuth ==
    \/ \E d \in RegisterInputs : RegisterLocal(d)
    \/ \E d \in LoginInputs : LoginLocal(d)
    \/ GetAllUsers

SpecAuth == InitAuth /\ [][NextAuth]_vars

\* The stored record of a username, as a sequence of none or one.
StoredUnder(raw, username) ==
    SelectSeq(loadUsers(raw), LAMBDA u : u.username = username)

\* C8: registerLocal with a username that the user store already holds fails
\* with "409: Username already exists", and the record stored under that
\* username and every other user record are as they were before the call.
C8_RegisterConflict ==
    [][(ret'.op = "register" /\ StoredUnder(users, ret'.data.username) # <<>>) =>
        /\ ret'.status = "error"
        /\ ret'.error = "409: Username already exists"
        /\ ret'.value = <<>>
        /\ loadUsers(users') = loadUsers(users)]_vars

C8_Witness ==
    /\ ret.op = "register"
    /\ ret.status = "error"
    /\ ret.data.username = "alice"
    /\ ret.data.fullName = "Mallory"
    /\ StoredUnder(users, "alice") # <<>>
    /\ StoredUnder(users, "alice")[1].fullName = "Alice A"

\* C9: loginLocal(username, password) returns a user exactly when a record is
\* stored under username and its password equals the one supplied, and then
\* it returns that record's account; in every other case (unknown username,
\* password mismatch, stored record without a password) it fails with
\* "401: Invalid credentials".  No login changes a user record.
C9_LoginChecksPassword ==
    [][ret'.op = "login" =>
        LET rec == StoredUnder(users, ret'.data.username)
            matches == /\ rec # <<>>
                       /\ rec[1].password # Absent
                       /\ rec[1].password = ret'.data.password
        IN /\ (ret'.status = "ok") <=> matches
           /\ matches =>
                /\ Len(ret'.value) = 1
                /\ ret'.value[1].username = ret'.data.username
                /\ ret'.value[1].id = rec[1].id
                /\ ret'.value[1].role = rec[1].role
           /\ ~matches =>
                /\ ret'.status = "error"
                /\ ret'.error = "401: Invalid credentials"
                /\ ret'.value = <<>>
           /\ loadUsers(users') = loadUsers(users)]_vars

C9_Witness ==
    /\ ret.op = "login"
    /\ ret.status = "error"
    /\ ret.data.username = "carol"
    /\ StoredUnder(users, "carol") # <<>>
    /\ StoredUnder(users, "carol")[1].password = Absent

\* C10: no value registerLocal, loginLocal or getAllUsers returns has a
\* password field; the password a registration supplies is kept in the
\* persisted record only.
C10_NoPasswordReturned ==
    /\ \A i \in 1..Len(ret.value) : "password" \notin DOMAIN ret.value[i]
    /\ (ret.op = "register" /\ ret.status = "ok") =>
         /\ StoredUnder(users, ret.data.username) # <<>>
         /\ StoredUnder(users, ret.data.username)[1].password = ret.data.password

C10_Witness ==
    /\ ret.op = "getAllUsers"
    /\ Len(ret.value) = 3
    /\ \E i \in 1..Len(users.list) : users.list[i].password = "pw"

\* C19: an operation of the user repository that finds the users key not set
\* leaves it holding the two demo accounts, "admin" with role admin and
\* password admin123 and "john" with role user and password user123, and
\* nothing else but the account the operation itself registered; an
\* operation that finds the key set keeps every stored account as it is.
C19_SeedOnce ==
    [][/\ users'.stored
       /\ ~users.stored =>
            /\ Len(users'.list) =
                 (IF ret'.op = "register" /\ ret'.status = "ok" THEN 3 ELSE 2)
            /\ users'.list[1].username = "admin"
            /\ users'.list[1].role = "admin"
            /\ users'.list[1].password = "admin123"
            /\ users'.list[2].username = "john"
            /\ users'.list[2].role = "user"
            /\ users'.list[2].password = "user123"
       /\ users.stored =>
            /\ Len(users'.list) >= Len(users.list)
            /\ \A i \in 1..Len(users.list) : users'.list[i] = users.list[i]
            /\ Len(users'.list) > Len(users.list) =>
                 ret'.op = "register" /\ ret'.status = "ok"]_vars

\* A key set before, without the account "john": after a registration and a
\* login it holds the old accounts and the new one, and still no "john".
C19_Witness ==
    /\ ret.op = "login"
    /\ Len(users.list) = 3
    /\ SubSeq(users.list, 1, 2) = legacy.list
    /\ StoredUnder(users, "john") = <<>>

\* C20: registerLocal stores and returns the new account with role "user";
\* no operation changes the role of an account the store already holds; the
\* accounts with role admin are the seeded account "admin" and no other.
C20_RoleImmutable ==
    [][/\ \A raw \in {users, users'} :
            raw.stored =>
                /\ { i \in 1..Len(raw.list) : raw.list[i].role = "admin" } = {1}
                /\ raw.list[1].username = "admin"
       /\ \A i \in 1..Len(users.list) :
            /\ i <= Len(users'.list)
            /\ users'.list[i].username = users.list[i].username
            /\ users'.list[i].role = users.list[i].role
       /\ (ret'.op = "register" /\ ret'.status = "ok") =>
            /\ ret'.value[1].role = "user"
            /\ users'.list[Len(users'.list)].username = ret'.data.username
            /\ users'.list[Len(users'.list)].role = "user"]_vars

\* "admin" is registered again with another password and is refused: the
\* stored account keeps role admin, next to two registered accounts.
C20_Witness ==
    /\ ret.op = "register"
    /\ ret.status = "error"
    /\ ret.data.username = "admin"
    /\ StoredUnder(users, "admin")[1].role = "admin"
    /\ Len(users.list) = 4
    /\ \A i \in 2..4 : users.list[i].role = "user"

\* C26: the ids of the stored accounts are pairwise distinct, and a
\* registration, accepted or refused, leaves the id of every account the
\* store held as it was.
C26_UserIdsDistinctStable ==
    [][/\ \A raw \in {users, users'} :
            \A i, j \in 1..Len(raw.list) : i # j => raw.list[i].id # raw.list[j].id
       /\ \A i \in 1..Len(users.list) :
            /\ i <= Len(users'.list)
            /\ users'.list[i].id = users.list[i].id]_vars

\* Two accounts registered after the seeded ones, then a refused
\* registration: the ids are "1" to "4".
C26_Witness ==
    /\ ret.op = "register"
    /\ ret.status = "error"
    /\ Len(users.list) = 4
    /\ SubSeq(users.list, 1, 2) = demo
    /\ [i \in 1..4 |-> users.list[i].id] = <<"1", "2", "3", "4">>

----------------------------------------------------------------------------
(* Session and role-scoped pages: App.tsx, certification-form.tsx and the  *)
(* pages under client/src/pages.                                           *)

\* The day number of a stored "YYYY-MM-DD" string.
ParseDay(str) == CHOOSE d \in DayRange : DateStr(d) = str

\* The Date a calendar pick of day p yields: midnight of p in local time.
PickInstant(p) == p * TicksPerDay - tz

\* new Date("YYYY-MM-DD"): midnight of that day in UTC.
DateOfString(str) == ParseDay(str) * TicksPerDay

\* date.toISOString().split('T')[0]: the UTC calendar date of an instant.
toISODate(t) == DateStr(t \div TicksPerDay)

\* format(str, "yyyy-MM-dd") on what handleSubmit produced, a string, with a
\* date-fns that accepts a string argument: the local calendar date of
\* new Date(str).
formatYMD(str) == DateStr((DateOfString(str) + tz) \div TicksPerDay)

UserPages == {"/dashboard", "/dashboard/certifications", "/dashboard/renewals"}
AdminPages == {"/admin", "/admin/certifications", "/admin/expiring"}

\* The pages ProtectedRoute renders for a role.
PagesOf(role) == IF role = "admin" THEN AdminPages
                 ELSE IF role = "user" THEN UserPages ELSE {}

\* Where Router sends "/" for a session.
HomeOf(s) == IF s.role = "admin" THEN "/admin"
             ELSE IF s.role = "user" THEN "/dashboard" ELSE "/"

\* The pages that fetch and mutate through /api/certifications.
ApiPages == {"/dashboard/certifications", "/admin", "/admin/certifications"}

\* The pages that render CertificationForm with isAdmin.
IsAdminForm == page.name \in AdminPages

\* The user of the auth context after loginLocal or registerLocal returned it.
SessionOf(user) == [id |-> user.id, role |-> user.role]

\* The last certification mutation since the page was loaded and how it
\* ended; logging in or out loads the page anew.
ViewRet(op, status) == [op |-> op, status |-> status]
NoMutation == ViewRet("none", "ok")

ViewLoginInputs ==
    { [NoCredentials EXCEPT !.username = "admin", !.password = "admin123"],
      [NoCredentials EXCEPT !.username = "john", !.password = "user123"],
      [NoCredentials EXCEPT !.username = "alice", !.password = "pw"],
      [NoCredentials EXCEPT !.username = "john", !.password = "pw"] }

ViewRegisterInputs ==
    { [username |-> "alice", password |-> "pw", fullName |-> "Alice A",
       email |-> "x@example.com"] }

\* The expiration day picked in the calendar of a form adding a
\* certification, and the later one picked when renewing it.
NewPicks == {2}
ExpPicks == {3}

\* The ids the form's user select offers: the accounts with role user.
SelectableUserIds ==
    {loadUsers(users)[i].id :
        i \in {j \in 1..Len(loadUsers(users)) : loadUsers(users)[j].role = "user"}}

\* What the user select of a form editing the page's editingCert can hold:
\* the certification's own userId, or an account picked from the list.
EditSelections ==
    {Or(page.editingCert[i].userId, "") : i \in 1..Len(page.editingCert)}
        \cup SelectableUserIds

\* currentUserId as the page passes it to the form: user pages pass user.id.
CurrentUserId == IF IsAdminForm THEN Absent ELSE session.id

\* The values of a form opened to add a certification, filled in and with
\* expiration day p picked and, in an admin form, user sel selected.
NewFormValues(p, sel) ==
    [name |-> "AWS", issuingOrganization |-> "Amazon",
     issueDate |-> PickInstant(1), expirationDate |-> PickInstant(p),
     credentialId |-> "", certificateUrl |-> "", notes |-> "",
     userId |-> IF IsAdminForm THEN sel ELSE Or(CurrentUserId, "")]

\* The values of a form reset to certification c, with expiration day p
\* picked and, in an admin form, user sel selected.
EditFormValues(c, p, sel) ==
    [name |-> Or(c.name, ""), issuingOrganization |-> Or(c.issuingOrganization, ""),
     issueDate |-> DateOfString(c.issueDate), expirationDate |-> PickInstant(p),
     credentialId |-> Or(c.credentialId, ""),
     certificateUrl |-> Or(c.certificateUrl, ""), notes |-> Or(c.notes, ""),
     userId |-> IF IsAdminForm THEN sel ELSE Or(c.userId, Or(CurrentUserId, ""))]

\* handleSubmit of CertificationForm: what it hands to onSubmit.
handleSubmit_FormUser(values, isAdmin, currentUserId) ==
    [id |-> Absent, userId |-> values.userId,
     name |-> values.name, issuingOrganization |-> values.issuingOrganization,
     credentialId |-> values.credentialId,
     issueDate |-> toISODate(values.issueDate),
     expirationDate |-> toISODate(values.expirationDate),
     certificateUrl |-> values.certificateUrl, notes |-> values.notes]
handleSubmit(values, isAdmin, currentUserId) ==
    [id |-> Absent,
     userId |-> IF isAdmin THEN values.userId
                ELSE IF currentUserId = Absent THEN Undefined ELSE currentUserId,
     name |-> values.name, issuingOrganization |-> values.issuingOrganization,
     credentialId |-> values.credentialId,
     issueDate |-> toISODate(values.issueDate),
     expirationDate |-> toISODate(values.expirationDate),
     certificateUrl |-> values.certificateUrl, notes |-> values.notes]

\* mutationFn of the pages: { ...data, issueDate: format(..), expirationDate: format(..) }
WithFormattedDates(data) ==
    [data EXCEPT !.issueDate = formatYMD(data.issueDate),
                 !.expirationDate = formatYMD(data.expirationDate)]

\* Whether the dates a submit stores stay within the days the model names.
InDayRange(values) ==
    /\ ((values.issueDate \div TicksPerDay) * TicksPerDay + tz) \div TicksPerDay
           \in (1 - MaxDrift)..MaxExpDay
    /\ ((values.expirationDate \div TicksPerDay) * TicksPerDay + tz) \div TicksPerDay
           \in (1 - MaxDrift)..MaxExpDay

\* What the page's certification query fetches from store cs: a user page
\* asks for the session user's certifications, an admin page for all.
Fetched_All(cs) == getAllCertifications(cs)
Fetched(cs) == IF page.name \in UserPages
               THEN getCertificationsByUser(cs, session.id)
               ELSE getAllCertifications(cs)

\* onSuccess of a mutation: invalidateQueries refetches the page's query.
Invalidated(pg, r) == IF r.status = "ok" THEN [pg EXCEPT !.query = Fetched(r.certs)]
                      ELSE pg

\* Login page: login(username, password) of the auth context.
Login(data) ==
    /\ session = NoSession
    /\ LET r == loginLocal(users, data)
       IN /\ users' = r.users
          /\ session' = IF r.status = "ok" THEN SessionOf(r.value[1]) ELSE NoSession
          /\ page' = [NoPage EXCEPT !.name =
                         IF r.status = "ok" THEN HomeOf(SessionOf(r.value[1])) ELSE "/"]
          /\ ret' = NoMutation
    /\ UNCHANGED <<certs, issued, now, tz>>

\* Login page: register(...) of the auth context.
Register(data) ==
    /\ session = NoSession
    /\ LET r == registerLocal(users, data)
       IN /\ Len(r.users.list) <= MaxUsers
          /\ users' = r.users
          /\ session' = IF r.status = "ok" THEN SessionOf(r.value[1]) ELSE NoSession
          /\ page' = [NoPage EXCEPT !.name =
                         IF r.status = "ok" THEN HomeOf(SessionOf(r.value[1])) ELSE "/"]
          /\ ret' = NoMutation
    /\ UNCHANGED <<certs, issued, now, tz>>

\* Sidebar: logout(); window.location.href = "/".
Logout ==
    /\ session # NoSession
    /\ session' = NoSession
    /\ page' = NoPage
    /\ ret' = NoMutation
    /\ UNCHANGED <<certs, issued, users, now, tz>>

\* A sidebar link to a page ProtectedRoute renders for the role; the page
\* mounts with fresh component state and the query data cached for its key.
Navigate(name) ==
    /\ name \in PagesOf(session.role)
    /\ name # page.name
    /\ page' = [NoPage EXCEPT !.name = name, !.query = page.query]
    /\ UNCHANGED <<certs, issued, users, now, tz, session, ret>>

\* queryFn of the user dashboard, the user renewals page and the admin
\* expiring page.
Query ==
    /\ page.name \in (UserPages \cup AdminPages) \ ApiPages
    /\ page' = [page EXCEPT !.query = Fetched(certs)]
    /\ UNCHANGED <<certs, issued, users, now, tz, session, ret>>

\* GET /api/certifications?userId= of the user certifications page, and
\* GET /api/certifications of the admin pages.
QueryViaApi ==
    /\ page.name \in ApiPages
    /\ page' = [page EXCEPT !.query = Fetched(certs)]
    /\ UNCHANGED <<certs, issued, users, now, tz, session, ret>>

\* createMutation of the user dashboard.
CreateFromDashboard(p) ==
    /\ page.name = "/dashboard"
    /\ Len(certs) < MaxCerts
    /\ issued < MaxIssued
    /\ InDayRange(NewFormValues(p, ""))
    /\ LET data == handleSubmit(NewFormValues(p, ""), IsAdminForm, CurrentUserId)
           body == WithFormattedDates([data EXCEPT !.userId = session.id])
           r == createCertification(certs, body, NewId(certs, issued + 1), now)
       IN /\ certs' = r.certs
          /\ page' = Invalidated(page, r)
          /\ ret' = ViewRet("createFromDashboard", r.status)
    /\ issued' = issued + 1
    /\ UNCHANGED <<users, now, tz, session>>

\* POST /api/certifications from the certifications pages.
CreateViaApi(p, sel) ==
    /\ page.name \in {"/dashboard/certifications", "/admin/certifications"}
    /\ Len(certs) < MaxCerts
    /\ issued < MaxIssued
    /\ InDayRange(NewFormValues(p, sel))
    /\ LET data == handleSubmit(NewFormValues(p, sel), IsAdminForm, CurrentUserId)
           body == WithFormattedDates(
                      IF page.name \in UserPages
                      THEN [data EXCEPT !.userId = session.id] ELSE data)
           r == createCertification(certs, body, NewId(certs, issued + 1), now)
       IN /\ certs' = r.certs
          /\ page' = Invalidated(page, r)
          /\ ret' = ViewRet("createViaApi", r.status)
    /\ issued' = issued + 1
    /\ UNCHANGED <<users, now, tz, session>>

\* The edit and delete dialogs are modal: the buttons of the list behind
\* an open dialog cannot be clicked.
NoDialog == page.editingCert = <<>> /\ page.deletingCert = <<>>

\* onOpenChange(false) of the edit or delete dialog: Cancel, Escape.
CloseDialog ==
    /\ ~NoDialog
    /\ page' = [page EXCEPT !.editingCert = <<>>, !.deletingCert = <<>>]
    /\ UNCHANGED <<certs, issued, users, now, tz, session, ret>>

\* setEditingCert(cert) on a certification the page lists.
SetEditingCert(i) ==
    /\ page.name \in {"/dashboard/certifications", "/dashboard/renewals",
                      "/admin/certifications", "/admin/expiring"}
    /\ NoDialog
    /\ i \in 1..Len(page.query)
    /\ page' = [page EXCEPT !.editingCert = <<page.query[i]>>]
    /\ UNCHANGED <<certs, issued, users, now, tz, session, ret>>

\* updateMutation of the user renewals page and of the admin expiring page.
SubmitRenewal(p, sel) ==
    /\ page.name \in {"/dashboard/renewals", "/admin/expiring"}
    /\ page.editingCert # <<>>
    /\ InDayRange(EditFormValues(page.editingCert[1], p, sel))
    /\ LET data == handleSubmit(EditFormValues(page.editingCert[1], p, sel),
                                IsAdminForm, CurrentUserId)
           r == updateCertification(certs, page.editingCert[1].id,
                                    WithFormattedDates(data))
       IN /\ certs' = r.certs
          /\ page' = IF r.status = "ok"
                     THEN Invalidated([page EXCEPT !.editingCert = <<>>], r)
                     ELSE page
          /\ ret' = ViewRet("submitRenewal", r.status)
    /\ UNCHANGED <<issued, users, now, tz, session>>

\* PATCH /api/certifications/:id from the certifications pages.
SubmitEditViaApi(p, sel) ==
    /\ page.name \in {"/dashboard/certifications", "/admin/certifications"}
    /\ page.editingCert # <<>>
    /\ InDayRange(EditFormValues(page.editingCert[1], p, sel))
    /\ LET data == handleSubmit(EditFormValues(page.editingCert[1], p, sel),
                                IsAdminForm, CurrentUserId)
           r == updateCertification(certs, page.editingCert[1].id,
                                    WithFormattedDates(data))
       IN /\ certs' = r.certs
          /\ page' = IF r.status = "ok"
                     THEN Invalidated([page EXCEPT !.editingCert = <<>>], r)
                     ELSE page
          /\ ret' = ViewRet("submitEditViaApi", r.status)
    /\ UNCHANGED <<issued, users, now, tz, session>>

\* setDeletingCert(cert) on a certification the page lists.
SetDeletingCert(i) ==
    /\ page.name \in {"/dashboard/certifications", "/admin/certifications"}
    /\ NoDialog
    /\ i \in 1..Len(page.query)
    /\ page' = [page EXCEPT !.deletingCert = <<page.query[i]>>]
    /\ UNCHANGED <<certs, issued, users, now, tz, session, ret>>

\* DELETE /api/certifications/:id, confirmed in the delete dialog.
ConfirmDelete ==
    /\ page.name \in {"/dashboard/certifications", "/admin/certifications"}
    /\ page.deletingCert # <<>>
    /\ LET r == deleteCertification(certs, page.deletingCert[1].id)
       IN /\ certs' = r.certs
          /\ page' = Invalidated([page EXCEPT !.deletingCert = <<>>], r)
          /\ ret' = ViewRet("confirmDelete", r.status)
    /\ UNCHANGED <<issued, users, now, tz, session>>

InitViews ==
    /\ certs = <<>>
    /\ issued = 0
    /\ users = NoUsers
    /\ now = 0
    /\ tz \in {0 - MaxTz, 0, MaxTz}
    /\ session = NoSession
    /\ page = NoPage
    /\ ret = NoMutation

NextViews ==
    \/ \E d \in ViewLoginInputs : Login(d)
    \/ \E d \in ViewRegisterInputs : Register(d)
    \/ Logout
    \/ \E n \in UserPages \cup AdminPages : Navigate(n)
    \/ Query
    \/ QueryViaApi
    \/ \E p \in NewPicks : CreateFromDashboard(p)
    \/ \E p \in NewPicks, sel \in SelectableUserIds \cup {""} : CreateViaApi(p, sel)
    \/ \E i \in 1..MaxCerts : SetEditingCert(i)
    \/ \E p \in ExpPicks, sel \in EditSelections : SubmitRenewal(p, sel)
    \/ \E p \in ExpPicks, sel \in EditSelections : SubmitEditViaApi(p, sel)
    \/ \E i \in 1..MaxCerts : SetDeletingCert(i)
    \/ ConfirmDelete
    \/ CloseDialog

SpecViews == InitViews /\ [][NextViews]_vars

\* The certifications of cs whose userId is not u, in the order of cs.
NotOwnedBy(cs, u) == SelectSeq(cs, LAMBDA c : c.userId # u)

\* C2: while the session's role is user, every certification the pages hold
\* (query data, the certification being edited, the one being deleted) has
\* the session user's id as userId, and no step of the session creates,
\* changes or removes a certification of another user.
C2_UserScoped ==
    [][(session.role = "user" /\ session'.role = "user") =>
        /\ session' = session
        /\ \A i \in 1..Len(page'.query) : page'.query[i].userId = session.id
        /\ \A i \in 1..Len(page'.editingCert) :
               page'.editingCert[i].userId = session.id
        /\ \A i \in 1..Len(page'.deletingCert) :
               page'.deletingCert[i].userId = session.id
        /\ NotOwnedBy(certs', session.id) = NotOwnedBy(certs, session.id)]_vars

C2_Witness ==
    /\ session.role = "user"
    /\ ret.op = "submitRenewal"
    /\ ret.status = "ok"
    /\ Len(certs) = 2
    /\ \E i \in 1..2 : certs[i].userId = session.id
    /\ \E i \in 1..2 : certs[i].userId \notin {session.id, ""}

\* The ids of the accounts the user store holds.
UserIds == {loadUsers(users)[i].id : i \in 1..Len(loadUsers(users))}

----------------------------------------------------------------------------
(* The certification form: components/certification-form.tsx              *)

\* The certification prop, as a sequence of none or one.
FormCert(id, userId, name) ==
    [id |-> id, userId |-> userId, name |-> name,
     issuingOrganization |-> "Amazon", credentialId |-> "",
     issueDate |-> DateStr(1), expirationDate |-> DateStr(2),
     certificateUrl |-> Absent, notes |-> Absent]

\* The certifications a page hands to the form: two of user "2" with the same
\* id (one fetched before and one after its name was changed) and one of
\* user "3".
CertificationProps ==
    { <<>>, <<FormCert(uuidv4(1), "2", "AWS")>>, <<FormCert(uuidv4(1), "2", "Pmp")>>,
      <<FormCert(uuidv4(2), "3", "PMI")>> }

CurrentUserIdProps == {Absent, "2", "3"}

\* certification?.id
certificationId(certification) ==
    IF certification = <<>> THEN Undefined ELSE certification[1].id

\* defaultValues of useForm; a date field is a sequence of none (undefined)
\* or one Date.
defaultValues(currentUserId) ==
    [name |-> "", issuingOrganization |-> "", issueDate |-> <<>>,
     expirationDate |-> <<>>, credentialId |-> "", certificateUrl |-> "",
     notes |-> "", userId |-> Or(currentUserId, "")]

\* The argument of form.reset.
resetValues(certification, currentUserId) ==
    IF certification = <<>> THEN defaultValues(currentUserId)
    ELSE LET c == certification[1]
         IN [name |-> Or(c.name, ""),
             issuingOrganization |-> Or(c.issuingOrganization, ""),
             issueDate |-> IF Falsy(c.issueDate) THEN <<>>
                           ELSE <<DateOfString(c.issueDate)>>,
             expirationDate |-> IF Falsy(c.expirationDate) THEN <<>>
                                ELSE <<DateOfString(c.expirationDate)>>,
             credentialId |-> Or(c.credentialId, ""),
             certificateUrl |-> Or(c.certificateUrl, ""),
             notes |-> Or(c.notes, ""),
             userId |-> Or(c.userId, Or(currentUserId, ""))]

\* const shouldReset = (open && !wasOpen) || (open && currentCertId !== prevCertId)
shouldReset_WhileOpen(open, wasOpen, currentCertId, prevCertId) == open
shouldReset(open, wasOpen, currentCertId, prevCertId) ==
    (open /\ ~wasOpen) \/ (open /\ currentCertId # prevCertId)

\* The effect of the form: the refs take the props of this run, and the
\* values are reset when shouldReset says so.
resetEffect(form, open, certification, currentUserId) ==
    LET reset == shouldReset(open, form.prevOpenRef, certificationId(certification),
                             form.prevCertIdRef)
    IN [form EXCEPT !.open = open, !.certification = certification,
                    !.currentUserId = currentUserId,
                    !.prevOpenRef = open,
                    !.prevCertIdRef = certificationId(certification),
                    !.values = IF reset THEN resetValues(certification, currentUserId)
                               ELSE form.values]

\* The component before its first effect ran.
FirstRender(isAdmin, currentUserId) ==
    [open |-> FALSE, certification |-> <<>>, currentUserId |-> currentUserId,
     isAdmin |-> isAdmin, prevOpenRef |-> FALSE, prevCertIdRef |-> Undefined,
     values |-> defaultValues(currentUserId)]

\* The component after mounting with the given props.
Mounted(open, certification, isAdmin, currentUserId) ==
    resetEffect(FirstRender(isAdmin, currentUserId), open, certification, currentUserId)

\* What the form did last: a render (and whether it reset the values) or a
\* submit (and what it handed to onSubmit).
FormRet(op, reset, data) == [op |-> op, reset |-> reset, data |-> data]

formOthers == <<certs, issued, users, now, tz, session>>

\* A render with new props; the effect runs when one of its dependencies
\* (open, certification, currentUserId) is not the one of the render before.
Render(open, certification, currentUserId) ==
    LET changed == \/ open # page.open
                   \/ certification # page.certification
                   \/ currentUserId # page.currentUserId
        after == IF changed THEN resetEffect(page, open, certification, currentUserId)
                 ELSE page
    IN /\ page' = after
       /\ ret' = FormRet("render",
                         changed /\ shouldReset(open, page.prevOpenRef,
                                                certificationId(certification),
                                                page.prevCertIdRef),
                         NoData)
       /\ UNCHANGED formOthers

\* The user types a name and picks the two dates.
FillIn(p) ==
    /\ page.open
    /\ page' = [page EXCEPT !.values.name = "Typed",
                            !.values.issuingOrganization = "Typed Org",
                            !.values.issueDate = <<PickInstant(1)>>,
                            !.values.expirationDate = <<PickInstant(p)>>]
    /\ ret' = FormRet("fillIn", FALSE, NoData)
    /\ UNCHANGED formOthers

\* The user select, rendered in an admin form only.
SelectUser(sel) ==
    /\ page.open
    /\ page.isAdmin
    /\ page' = [page EXCEPT !.values.userId = sel]
    /\ ret' = FormRet("selectUser", FALSE, NoData)
    /\ UNCHANGED formOthers

\* The submit button: form.handleSubmit(handleSubmit) validates, then calls
\* handleSubmit with the values.
Submit ==
    /\ page.open
    /\ page.values.name # ""
    /\ page.values.issuingOrganization # ""
    /\ page.values.issueDate # <<>>
    /\ page.values.expirationDate # <<>>
    /\ ret' = FormRet("submit", FALSE,
                      handleSubmit([page.values EXCEPT !.issueDate = @[1],
                                                       !.expirationDate = @[1]],
                                   page.isAdmin, page.currentUserId))
    /\ UNCHANGED <<page, certs, issued, users, now, tz, session>>

InitForm ==
    /\ certs = <<>>
    /\ issued = 0
    /\ users = NoUsers
    /\ now = 0
    /\ tz = 0
    /\ session = NoSession
    /\ page \in { Mounted(o, c, a, u) :
                    o \in BOOLEAN, c \in CertificationProps, a \in BOOLEAN,
                    u \in CurrentUserIdProps }
    /\ ret = FormRet("none", FALSE, NoData)

NextForm ==
    \/ \E o \in BOOLEAN, c \in CertificationProps, u \in CurrentUserIdProps :
          Render(o, c, u)
    \/ \E p \in ExpPicks : FillIn(p)
    \/ \E sel \in {"2", "3"} : SelectUser(sel)
    \/ Submit

SpecForm == InitForm /\ [][NextForm]_vars

\* currentUserId as handleSubmit reads it: a prop not passed is undefined.
PropValue(v) == IF v = Absent THEN Undefined ELSE v

\* C21: a submit of a form with isAdmin false hands currentUserId to onSubmit
\* as userId, whatever the userId field of the form holds and whoever owns
\* the certification being edited; a submit of a form with isAdmin true hands
\* over the value of the userId field.
C21_SubmittedUserId ==
    [][ret'.op = "submit" =>
        /\ ~page.isAdmin => ret'.data.userId = PropValue(page.currentUserId)
        /\ page.isAdmin => ret'.data.userId = page.values.userId]_vars

\* A user form editing a certification of another user: the userId field
\* holds the owner, the submit carries the current user.
C21_Witness ==
    /\ ret.op = "submit"
    /\ ~page.isAdmin
    /\ page.currentUserId = "2"
    /\ page.certification # <<>>
    /\ page.certification[1].userId = "3"
    /\ page.values.userId = "3"
    /\ ret.data.userId = "2"

\* C22: a render resets the form values exactly when the dialog goes from
\* closed to open, or is open with a certification id other than the one of
\* the render before; any other render leaves the values as typed.
C22_ResetOnOpenOrIdChange ==
    [][ret'.op = "render" =>
        LET expected ==
              \/ page'.open /\ ~page.open
              \/ /\ page'.open
                 /\ certificationId(page'.certification)
                       # certificationId(page.certification)
        IN /\ ret'.reset = expected
           /\ expected =>
                page'.values = resetValues(page'.certification, page'.currentUserId)
           /\ ~expected => page'.values = page.values]_vars

\* The dialog stays open on the same certification id while currentUserId
\* changes and the certification is a new object: what was typed is kept.
C22_Witness ==
    /\ ret.op = "render"
    /\ ~ret.reset
    /\ page.open
    /\ page.values.name = "Typed"
    /\ page.certification = <<FormCert(uuidv4(1), "2", "Pmp")>>
    /\ page.currentUserId = "3"

----------------------------------------------------------------------------
(* The demo server: POST /api/auth/register and POST /api/auth/login       *)

\* const users: the in-memory store the server starts with; its records
\* carry no password.
serverUsers == << publicUser(demo[1]), publicUser(demo[2]) >>

\* The request bodies: a field is a string or missing.
ServerUsernames == {Absent, "admin", "john", "alice", "bob", "constructor"}
ServerPasswords == {Absent, "admin123", "user123", "pw", "other"}

RegisterBodies ==
    { [username |-> u, password |-> p, fullName |-> n, email |-> "x@example.com"] :
        u \in ServerUsernames \ {"john"}, p \in {Absent, "pw"},
        n \in {Absent, "Alice A"} }

LoginBodies ==
    { [NoCredentials EXCEPT !.username = u, !.password = p] :
        u \in ServerUsernames, p \in ServerPasswords }

\* app.post("/api/auth/register"): the store afterwards, the status and the body.
postRegister(us, body) ==
    IF \/ Falsy(body.username) \/ Falsy(body.password)
       \/ Falsy(body.fullName) \/ Falsy(body.email)
    THEN [users |-> us, status |-> 400, value |-> <<>>]
    ELSE IF UsernameTaken(us, body.username)
    THEN [users |-> us, status |-> 409, value |-> <<>>]
    ELSE LET user == [id |-> NextUserId(us), username |-> body.username,
                      fullName |-> body.fullName, email |-> body.email,
                      role |-> "user"]
         IN [users |-> Assign(us, body.username, user), status |-> 201,
             value |-> <<user>>]

\* The demo passwords the login route names.
demoPassword(username, password) ==
    \/ username = "admin" /\ password = "admin123"
    \/ username = "john" /\ password = "user123"

\* app.post("/api/auth/login"): the status and the body.
postLogin(us, body) ==
    IF Falsy(body.username) \/ Falsy(body.password)
    THEN [status |-> 400, value |-> <<>>]
    ELSE IF demoPassword(body.username, body.password)
    THEN [status |-> 200, value |-> Lookup(us, body.username)]
    ELSE IF UsernameTaken(us, body.username)
    THEN [status |-> 200, value |-> Lookup(us, body.username)]
    ELSE [status |-> 401, value |-> <<>>]

ServerRet(op, data, r) ==
    [op |-> op, data |-> data, status |-> r.status, value |-> r.value]

serverOthers == <<certs, issued, now, tz, session>>

\* page holds what the clients know: the username and password of every
\* registration the server accepted.
PostRegister(body) ==
    LET r == postRegister(users.list, body)
    IN /\ Len(r.users) <= MaxUsers
       /\ users' = [users EXCEPT !.list = r.users]
       /\ page' = IF r.status = 201
                  THEN page \cup {<<body.username, body.password>>}
                  ELSE page
       /\ ret' = ServerRet("register", body, r)
       /\ UNCHANGED serverOthers

PostLogin(body) ==
    /\ ret' = ServerRet("login", body, postLogin(users.list, body))
    /\ UNCHANGED <<users, page, certs, issued, now, tz, session>>

InitServer ==
    /\ certs = <<>>
    /\ issued = 0
    /\ users = [stored |-> TRUE, list |-> serverUsers]
    /\ now = 0
    /\ tz = 0
    /\ session = NoSession
    /\ page = {}
    /\ ret = ServerRet("none", NoCredentials, [status |-> 200, value |-> <<>>])

NextServer ==
    \/ \E b \in RegisterBodies : PostRegister(b)
    \/ \E b \in LoginBodies : PostLogin(b)

SpecServer == InitServer /\ [][NextServer]_vars

\* The usernames and passwords that belong together: the two demo accounts
\* and the accepted registrations.
Credentials == {<<"admin", "admin123">>, <<"john", "user123">>} \cup page

\* C23: a login request that names a username and a password is answered
\* 401 unless the username is in the store and the password is that
\* account's password.
C23_LoginUnauthorized ==
    [][(/\ ret'.op = "login"
        /\ ~Falsy(ret'.data.username)
        /\ ~Falsy(ret'.data.password)
        /\ <<ret'.data.username, ret'.data.password>> \notin Credentials)
       => ret'.status = 401]_vars

\* "alice" registered with password "pw" and logs in with "other".
C23_Witness ==
    /\ ret.op = "login"
    /\ ret.data.username = "alice"
    /\ ret.data.password = "other"
    /\ <<"alice", "pw">> \in page
    /\ ret.status = 200
    /\ ret.value # <<>>
    /\ ret.value[1].username = "alice"

----------------------------------------------------------------------------
(* Route guarding: ProtectedRoute and Router of App.tsx                    *)

AdminPaths == AdminPages \cup {"/admin/users"}
UserPaths == UserPages
Paths == {"/", "/nowhere"} \cup AdminPaths \cup UserPaths

\* requiredRole of the ProtectedRoute around the page of a path.
requiredRole(path) == IF path \in AdminPaths THEN "admin" ELSE "user"

\* What a route element renders: a page, or a Redirect.
Shows(component) == [redirect |-> FALSE, to |-> "", shown |-> component]
RedirectTo(path) == [redirect |-> TRUE, to |-> path, shown |-> "Redirect"]

\* ProtectedRoute with the page of path as children.
ProtectedRoute_AnyRole(path, user, isLoading) ==
    IF isLoading THEN Shows("Loader")
    ELSE IF user = NoSession THEN RedirectTo("/")
    ELSE Shows(path)
ProtectedRoute(path, user, isLoading) ==
    IF isLoading THEN Shows("Loader")
    ELSE IF user = NoSession THEN RedirectTo("/")
    ELSE IF user.role # requiredRole(path)
    THEN (IF user.role = "admin" THEN RedirectTo("/admin") ELSE RedirectTo("/dashboard"))
    ELSE Shows(path)

\* Router: the Switch over the location.
Router(path, user, isLoading) ==
    IF isLoading THEN Shows("Loader")
    ELSE IF path = "/"
    THEN (IF user # NoSession
          THEN (IF user.role = "admin" THEN RedirectTo("/admin")
                ELSE RedirectTo("/dashboard"))
          ELSE Shows("Login"))
    ELSE IF path \in AdminPaths \cup UserPaths
    THEN ProtectedRoute(path, user, isLoading)
    ELSE Shows("NotFound")

\* The location and the page shown once the Redirects of a render have been
\* followed, giving up after n of them.
RECURSIVE Follow(_, _, _, _)
Follow(path, user, isLoading, n) ==
    LET r == Router(path, user, isLoading)
    IN IF ~r.redirect THEN [location |-> path, isLoading |-> isLoading, shown |-> r.shown]
       ELSE IF n = 0 THEN [location |-> path, isLoading |-> isLoading, shown |-> "loop"]
       ELSE Follow(r.to, user, isLoading, n - 1)

\* What was asked for last, and what Router made of it at first.
RouteRet(op, path, first) == [op |-> op, path |-> path, first |-> first]

routeOthers == <<certs, issued, now, tz>>

\* useAuth() finishes loading the session.
FinishLoading ==
    /\ page.isLoading
    /\ page' = Follow(page.location, session, FALSE, MaxRedirects)
    /\ ret' = RouteRet("load", page.location, Router(page.location, session, FALSE))
    /\ UNCHANGED <<users, session, certs, issued, now, tz>>

\* A link or an address typed: the location changes and Router renders.
Visit(path) ==
    /\ page' = Follow(path, session, page.isLoading, MaxRedirects)
    /\ ret' = RouteRet("visit", path, Router(path, session, page.isLoading))
    /\ UNCHANGED <<users, session, certs, issued, now, tz>>

\* The Login page: login(username, password) sets the user of the context.
SignIn(data) ==
    /\ page.shown = "Login"
    /\ LET r == loginLocal(users, data)
           user == IF r.status = "ok" THEN SessionOf(r.value[1]) ELSE NoSession
       IN /\ users' = r.users
          /\ session' = user
          /\ page' = Follow(page.location, user, FALSE, MaxRedirects)
          /\ ret' = RouteRet("signIn", page.location, Router(page.location, user, FALSE))
    /\ UNCHANGED routeOthers

\* The Login page: register(...) sets the user of the context.
SignUp(data) ==
    /\ page.shown = "Login"
    /\ LET r == registerLocal(users, data)
           user == IF r.status = "ok" THEN SessionOf(r.value[1]) ELSE NoSession
       IN /\ users' = r.users
          /\ session' = user
          /\ page' = Follow(page.location, user, FALSE, MaxRedirects)
          /\ ret' = RouteRet("signUp", page.location, Router(page.location, user, FALSE))
    /\ UNCHANGED routeOthers

\* Sidebar: logout(); window.location.href = "/" loads the application anew.
SignOut ==
    /\ ~page.isLoading
    /\ session # NoSession
    /\ session' = NoSession
    /\ page' = Follow("/", NoSession, TRUE, MaxRedirects)
    /\ ret' = RouteRet("signOut", "/", Router("/", NoSession, TRUE))
    /\ UNCHANGED <<users, certs, issued, now, tz>>

InitRoute ==
    /\ certs = <<>>
    /\ issued = 0
    /\ users = NoUsers
    /\ now = 0
    /\ tz = 0
    /\ session \in {NoSession, SessionOf(demo[1]), SessionOf(demo[2])}
    /\ \E path \in Paths : page = Follow(path, session, TRUE, MaxRedirects)
    /\ ret = RouteRet("none", "/", Shows("Loader"))

NextRoute ==
    \/ FinishLoading
    \/ \E path \in Paths : Visit(path)
    \/ \E d \in ViewLoginInputs : SignIn(d)
    \/ \E d \in ViewRegisterInputs : SignUp(d)
    \/ SignOut

SpecRoute == InitRoute /\ [][NextRoute]_vars

\* C24: once loading has finished, an admin page is shown only to a session
\* with role admin and a user page only to a session with role user; a
\* protected path asked for without a session ends at "/", an admin path
\* asked for by a user at "/dashboard", a user path asked for by an admin at
\* "/admin"; every redirect ends at a page that is shown.
C24_RouteGuard ==
    /\ page.shown # "loop"
    /\ ~page.isLoading =>
         /\ page.shown # "Loader"
         /\ page.shown \in AdminPaths => session.role = "admin"
         /\ page.shown \in UserPaths => session.role = "user"
         /\ (ret.op \in {"visit", "load"} /\ ret.path \in AdminPaths \cup UserPaths) =>
              /\ session = NoSession =>
                   ret.first = RedirectTo("/") /\ page.shown = "Login"
              /\ (session.role = "user" /\ ret.path \in AdminPaths) =>
                   ret.first = RedirectTo("/dashboard") /\ page.shown = "/dashboard"
              /\ (session.role = "admin" /\ ret.path \in UserPaths) =>
                   ret.first = RedirectTo("/admin") /\ page.shown = "/admin"
              /\ (session # NoSession /\ session.role = requiredRole(ret.path)) =>
                   page.shown = ret.path

\* The registered user "alice" asks for /admin/users and is shown /dashboard.
C24_Witness ==
    /\ ~page.isLoading
    /\ session.id = "3"
    /\ session.role = "user"
    /\ ret.op = "visit"
    /\ ret.path = "/admin/users"
    /\ page.location = "/dashboard"
    /\ page.shown = "/dashboard"

----------------------------------------------------------------------------
(* Certification lists of the pages: search, status filter, counts and     *)
(* orderings (pages/user/certifications.tsx, pages/admin/certifications.tsx,*)
(* pages/admin/expiring.tsx, user dashboard, user renewals).                *)

\* The characters of the texts the lists and the search box hold.
Chars(s) ==
    CASE s = "" -> <<>>
      [] s = "AWS" -> <<"A", "W", "S">>
      [] s = "Pmp" -> <<"P", "m", "p">>
      [] s = "Amazon" -> <<"A", "m", "a", "z", "o", "n">>
      [] s = "PMI" -> <<"P", "M", "I">>
      [] s = "X1" -> <<"X", "1">>
      [] s = "aws" -> <<"a", "w", "s">>
      [] s = "PM" -> <<"P", "M">>
      [] s = "x1" -> <<"x", "1">>
      [] s = "zo" -> <<"z", "o">>

\* The letters of those texts, each upper-case letter with its lower-case one.
CasePairs ==
    { <<"A", "a">>, <<"W", "w">>, <<"S", "s">>, <<"P", "p">>, <<"M", "m">>,
      <<"I", "i">>, <<"X", "x">>, <<"Z", "z">>, <<"O", "o">>, <<"N", "n">> }

\* String.prototype.toLowerCase, character by character.
toLowerCase_Keep(cs) == cs
toLowerCase(cs) ==
    [i \in 1..Len(cs) |->
        IF \E p \in CasePairs : p[1] = cs[i]
        THEN (CHOOSE p \in CasePairs : p[1] = cs[i])[2]
        ELSE cs[i]]

\* String.prototype.includes
includes(text, sub) ==
    \E o \in 0..(Len(text) - Len(sub)) : SubSeq(text, o + 1, o + Len(sub)) = sub

\* matchesSearch of filteredCertifications.
matchesSearch(cert, search) ==
    \/ includes(toLowerCase(Chars(cert.name)), toLowerCase(Chars(search)))
    \/ includes(toLowerCase(Chars(cert.issuingOrganization)), toLowerCase(Chars(search)))
    \/ IF cert.credentialId \in {Absent, Undefined}
       THEN FALSE
       ELSE includes(toLowerCase(Chars(cert.credentialId)), toLowerCase(Chars(search)))

\* What new Date() gives to read number j of a pass during which the clock
\* ticks just before read number k.
ClockAt(j, k) == (IF j < k THEN now ELSE now + 1) + tz

\* The days the dates of the listed certifications fall on.
ListDays == {0, 1, 2, 31, 61, 91}

\* parseISO on the dates of the listed certifications.
parseListDate(s) == TicksPerDay * (CHOOSE d \in ListDays : DateStr(d) = s)

\* differenceInDays(parseISO(cert.expirationDate), new Date()) at clock value t.
daysUntil(cert, t) == differenceInDays(parseListDate(cert.expirationDate), t)

\* The switch on statusFilter of filteredCertifications.
passesStatusFilter(statusFilter, days) ==
    CASE statusFilter = "active" -> days > 90
      [] statusFilter = "expiring" -> days > 0 /\ days <= 90
      [] statusFilter = "expired" -> days < 0
      [] OTHER -> TRUE

\* The callback of certifications.filter for the certification at index i.
FilterRow(i, search, statusFilter, k) ==
    LET m == matchesSearch(certs[i], search)
        days == daysUntil(certs[i], ClockAt(i, k))
    IN [matches |-> m, days |-> IF m THEN days ELSE 0,
        passes |-> m /\ passesStatusFilter(statusFilter, days)]

Indexes(list) == [i \in 1..Len(list) |-> i]

\* Array.prototype.filter: the elements whose callback returned true, in order.
KeepRows_Either(rows) == SelectSeq(Indexes(rows), LAMBDA i : rows[i].matches)
KeepRows(rows) == SelectSeq(Indexes(rows), LAMBDA i : rows[i].matches /\ rows[i].passes)

\* A certification of a list, with its texts and its dates.
ListCert(text, issue, exp) ==
    [id |-> Absent, userId |-> "2", name |-> text.name,
     issuingOrganization |-> text.issuingOrganization,
     credentialId |-> text.credentialId,
     issueDate |-> DateStr(issue), expirationDate |-> DateStr(exp),
     certificateUrl |-> Absent, notes |-> Absent]

\* A stored list: the i-th certification created has the i-th id.
WithIds(list) == [i \in 1..Len(list) |-> [list[i] EXCEPT !.id = uuidv4(i)]]

ListsOf(candidates) ==
    {WithIds(l) : l \in UNION {[1..n -> candidates] : n \in 0..MaxList}}

SearchInputs == {"", "aws", "PM", "x1", "zo"}
StatusFilters == {"all", "active", "expiring", "expired"}

\* useState of a certifications page: the search box and the status select.
ListPage(search, statusFilter) ==
    [name |-> "/dashboard/certifications", search |-> search,
     statusFilter |-> statusFilter]

\* One render of a certifications page (the user's and the admin's compute
\* the list alike): filteredCertifications.
FilteredCertifications(k) ==
    /\ k \in 1..(Len(certs) + 1)
    /\ k <= Len(certs) => now < MaxClock
    /\ LET rows == [i \in 1..Len(certs) |->
                       FilterRow(i, page.search, page.statusFilter, k)]
           kept == KeepRows(rows)
       IN ret' = [op |-> "filteredCertifications", rows |-> rows,
                  result |-> [j \in 1..Len(kept) |-> certs[kept[j]]]]
    /\ now' = IF k <= Len(certs) THEN now + 1 ELSE now
    /\ UNCHANGED <<certs, issued, users, tz, session, page>>

NoRender == [op |-> "none"]

FilterCandidates ==
    { ListCert([name |-> "AWS", issuingOrganization |-> "Amazon", credentialId |-> "X1"], 0, 1),
      ListCert([name |-> "Pmp", issuingOrganization |-> "PMI", credentialId |-> Absent], 0, 1),
      ListCert([name |-> "Pmp", issuingOrganization |-> "PMI", credentialId |-> Absent], 0, 91),
      ListCert([name |-> "AWS", issuingOrganization |-> "PMI", credentialId |-> ""], 0, 91) }

InitFilter ==
    /\ certs \in ListsOf(FilterCandidates)
    /\ issued = Len(certs)
    /\ users = NoUsers
    /\ now \in 0..MaxClock
    /\ tz \in (0 - MaxTz)..MaxTz
    /\ session = NoSession
    /\ page \in {ListPage(s, f) : s \in SearchInputs, f \in StatusFilters}
    /\ ret = NoRender

NextFilter ==
    \E k \in 1..(MaxList + 1) : FilteredCertifications(k)

SpecFilter == InitFilter /\ [][NextFilter]_vars

\* The day difference the callback of filter number f of a pass computes for
\* the certification at index i: each callback reads the clock anew, filter
\* after filter and certification after certification.
DaysAt(i, f, k) == daysUntil(certs[i], ClockAt((f - 1) * Len(certs) + i, k))

\* The clock values the reads of a pass of filters filters see.
ReadsOf(filters, k) ==
    [j \in 1..(filters * Len(certs)) |-> ClockAt(j, k)]

\* categorizedCerts of the user renewals page.
categorizedCerts(k) ==
    [expired |-> SelectSeq(Indexes(certs), LAMBDA i : DaysAt(i, 1, k) < 0),
     critical |-> SelectSeq(Indexes(certs),
                     LAMBDA i : DaysAt(i, 2, k) >= 0 /\ DaysAt(i, 2, k) <= 30),
     warning |-> SelectSeq(Indexes(certs),
                     LAMBDA i : DaysAt(i, 3, k) > 30 /\ DaysAt(i, 3, k) <= 60),
     upcoming |-> SelectSeq(Indexes(certs),
                     LAMBDA i : DaysAt(i, 4, k) > 60 /\ DaysAt(i, 4, k) <= 90)]

\* stats of the admin expiring page.
expiringStats(k) ==
    [within30 |-> SelectSeq(Indexes(certs),
                     LAMBDA i : DaysAt(i, 1, k) > 0 /\ DaysAt(i, 1, k) <= 30),
     within60 |-> SelectSeq(Indexes(certs),
                     LAMBDA i : DaysAt(i, 2, k) > 30 /\ DaysAt(i, 2, k) <= 60),
     within90 |-> SelectSeq(Indexes(certs),
                     LAMBDA i : DaysAt(i, 3, k) > 60 /\ DaysAt(i, 3, k) <= 90),
     expired |-> SelectSeq(Indexes(certs), LAMBDA i : DaysAt(i, 4, k) < 0)]

\* stats of the user dashboard.
dashboardStats(k) ==
    [active |-> SelectSeq(Indexes(certs), LAMBDA i : DaysAt(i, 1, k) > 90),
     expiringSoon |-> SelectSeq(Indexes(certs),
                     LAMBDA i : DaysAt(i, 2, k) > 0 /\ DaysAt(i, 2, k) <= 90),
     expired |-> SelectSeq(Indexes(certs), LAMBDA i : DaysAt(i, 3, k) < 0)]

\* A pass of filters filters over the list, the clock ticking just before
\* read k if k is one of its reads.
PassDone(filters, k) ==
    /\ k \in 1..(filters * Len(certs) + 1)
    /\ k <= filters * Len(certs) => now < MaxClock
    /\ now' = IF k <= filters * Len(certs) THEN now + 1 ELSE now
    /\ UNCHANGED <<certs, issued, users, tz, session, page>>

\* One render of the user renewals page.
CategorizedCerts(k) ==
    /\ PassDone(4, k)
    /\ ret' = [op |-> "categorizedCerts", reads |-> ReadsOf(4, k),
               days |-> [i \in 1..Len(certs) |-> DaysAt(i, 1, k)],
               groups |-> categorizedCerts(k)]

\* One render of the stat cards of the admin expiring page.
ExpiringStats(k) ==
    /\ PassDone(4, k)
    /\ ret' = [op |-> "expiringStats", reads |-> ReadsOf(4, k),
               days |-> [i \in 1..Len(certs) |-> DaysAt(i, 1, k)],
               groups |-> expiringStats(k)]

\* One render of the counts of the user dashboard.
DashboardStats(k) ==
    /\ PassDone(3, k)
    /\ ret' = [op |-> "dashboardStats", reads |-> ReadsOf(3, k),
               days |-> [i \in 1..Len(certs) |-> DaysAt(i, 1, k)],
               groups |-> dashboardStats(k)]

CountCandidates ==
    {ListCert([name |-> "AWS", issuingOrganization |-> "Amazon", credentialId |-> "X1"],
              0, e) : e \in {1, 31, 61, 91}}

InitCounts ==
    /\ certs \in ListsOf(CountCandidates)
    /\ issued = Len(certs)
    /\ users = NoUsers
    /\ now \in 0..MaxClock
    /\ tz \in (0 - MaxTz)..MaxTz
    /\ session = NoSession
    /\ page = NoPage
    /\ ret = NoRender

NextCounts ==
    \/ \E k \in 1..(4 * MaxList + 1) : CategorizedCerts(k)
    \/ \E k \in 1..(4 * MaxList + 1) : ExpiringStats(k)
    \/ \E k \in 1..(3 * MaxList + 1) : DashboardStats(k)

SpecCounts == InitCounts /\ [][NextCounts]_vars

\* parseISO(c.expirationDate).getTime() and parseISO(c.issueDate).getTime()
\* of the listed certifications.
ExpirationTimes == [i \in 1..Len(certs) |-> parseListDate(certs[i].expirationDate)]
IssueTimes == [i \in 1..Len(certs) |-> parseListDate(certs[i].issueDate)]

\* Array.prototype.sort with the comparator a, b |-> key[a] - key[b]: ascending
\* by key, elements of equal key kept in their order (the sort is stable).
sort(seq, key) ==
    LET rank(j) == 1 + Cardinality({j2 \in 1..Len(seq) :
                        \/ key[seq[j2]] < key[seq[j]]
                        \/ key[seq[j2]] = key[seq[j]] /\ j2 < j})
    IN [r \in 1..Len(seq) |-> seq[CHOOSE j \in 1..Len(seq) : rank(j) = r]]

\* The comparator b, a |-> key[b] - key[a] sorts by the negated key.
Negated(key) == [i \in DOMAIN key |-> 0 - key[i]]

\* Array.prototype.slice(0, n)
slice(seq, n) == SubSeq(seq, 1, IF Len(seq) < n THEN Len(seq) ELSE n)

TimeFilters == {"all", "30", "60", "90", "expired"}

\* The switch on timeFilter of getExpiringCerts.
passesTimeFilter(timeFilter, days) ==
    CASE timeFilter = "30" -> days > 0 /\ days <= 30
      [] timeFilter = "60" -> days > 0 /\ days <= 60
      [] timeFilter = "90" -> days > 0 /\ days <= 90
      [] timeFilter = "expired" -> days < 0
      [] OTHER -> days <= 90

\* getExpiringCerts of the admin expiring page.
getExpiringCerts(timeFilter, k) ==
    sort(SelectSeq(Indexes(certs), LAMBDA i : passesTimeFilter(timeFilter, DaysAt(i, 1, k))),
         ExpirationTimes)

\* upcomingRenewals of the user dashboard.
upcomingRenewals(k) ==
    slice(sort(SelectSeq(Indexes(certs),
                         LAMBDA i : DaysAt(i, 1, k) > 0 /\ DaysAt(i, 1, k) <= 90),
               ExpirationTimes), 3)

\* expiringCerts of the admin dashboard: expiring within 30 days.
expiringCertifications(k) ==
    slice(sort(SelectSeq(Indexes(certs),
                         LAMBDA i : DaysAt(i, 1, k) > 0 /\ DaysAt(i, 1, k) <= 30),
               ExpirationTimes), 5)

\* recentCerts of the user dashboard and of the admin dashboard.
recentCerts == slice(sort(Indexes(certs), Negated(IssueTimes)), 3)

\* The sections of the user renewals page, as renderSection lists them.
RenewalSections(k) ==
    /\ PassDone(4, k)
    /\ LET c == categorizedCerts(k)
       IN ret' = [op |-> "renewalSections", by |-> "expirationDate",
                  lists |-> <<c.expired, c.critical, c.warning, c.upcoming>>]

\* The table of the admin expiring page.
GetExpiringCerts(timeFilter, k) ==
    /\ PassDone(1, k)
    /\ ret' = [op |-> "getExpiringCerts", by |-> "expirationDate",
               lists |-> <<getExpiringCerts(timeFilter, k)>>]

\* The upcoming renewals of the user dashboard.
UpcomingRenewals(k) ==
    /\ PassDone(1, k)
    /\ ret' = [op |-> "upcomingRenewals", by |-> "expirationDate",
               lists |-> <<upcomingRenewals(k)>>]

\* The expiring-within-30-days list of the admin dashboard.
ExpiringCertifications(k) ==
    /\ PassDone(1, k)
    /\ ret' = [op |-> "expiringCertifications", by |-> "expirationDate",
               lists |-> <<expiringCertifications(k)>>]

\* The recent certifications of a dashboard.
RecentCerts ==
    /\ ret' = [op |-> "recentCerts", by |-> "issueDate", lists |-> <<recentCerts>>]
    /\ UNCHANGED <<certs, issued, users, now, tz, session, page>>

SortCandidates ==
    { ListCert([name |-> "AWS", issuingOrganization |-> "Amazon", credentialId |-> "X1"],
               c[1], c[2]) : c \in {<<0, 2>>, <<1, 1>>, <<0, 1>>, <<1, 31>>} }

InitSort ==
    /\ certs \in ListsOf(SortCandidates)
    /\ issued = Len(certs)
    /\ users = NoUsers
    /\ now \in 0..MaxClock
    /\ tz \in (0 - MaxTz)..MaxTz
    /\ session = NoSession
    /\ page = NoPage
    /\ ret = NoRender

NextSort ==
    \/ \E k \in 1..(4 * MaxList + 1) : RenewalSections(k)
    \/ \E f \in TimeFilters, k \in 1..(MaxList + 1) : GetExpiringCerts(f, k)
    \/ \E k \in 1..(MaxList + 1) : UpcomingRenewals(k)
    \/ \E k \in 1..(MaxList + 1) : ExpiringCertifications(k)
    \/ RecentCerts

SpecSort == InitSort /\ [][NextSort]_vars

----------------------------------------------------------------------------
(* The validity bar of the renewals page: getTimeProgress                  *)

\* A JavaScript number: NaN, or the fraction num / den with den > 0.
NaN == [kind |-> "NaN", num |-> 0, den |-> 1]
Number(num, den) == [kind |-> "number", num |-> num, den |-> den]

\* (elapsedDays / totalDays) * 100: a division by zero gives NaN for 0 / 0
\* and an infinity otherwise.
Percent(elapsedDays, totalDays) ==
    IF totalDays = 0
    THEN (IF elapsedDays = 0 THEN NaN
          ELSE [kind |-> IF elapsedDays > 0 THEN "Infinity" ELSE "-Infinity",
                num |-> 0, den |-> 1])
    ELSE IF totalDays > 0 THEN Number(elapsedDays * 100, totalDays)
    ELSE Number((0 - elapsedDays) * 100, 0 - totalDays)

\* Math.max(0, x)
MathMax0(x) ==
    CASE x.kind = "NaN" -> NaN
      [] x.kind = "Infinity" -> x
      [] x.kind = "-Infinity" -> Number(0, 1)
      [] OTHER -> IF x.num < 0 THEN Number(0, 1) ELSE x

\* Math.min(100, x)
MathMin100(x) ==
    CASE x.kind = "NaN" -> NaN
      [] x.kind = "Infinity" -> Number(100, 1)
      [] x.kind = "-Infinity" -> x
      [] OTHER -> IF x.num > 100 * x.den THEN Number(100, 1) ELSE x

\* getTimeProgress(cert) at clock value t.
getTimeProgress(cert, t) ==
    LET issueDate == parseListDate(cert.issueDate)
        expDate == parseListDate(cert.expirationDate)
        totalDays == differenceInDays(expDate, issueDate)
        elapsedDays == differenceInDays(t, issueDate)
    IN [totalDays |-> totalDays, elapsedDays |-> elapsedDays,
        value |-> MathMin100(MathMax0(Percent(elapsedDays, totalDays)))]

\* The bar of the i-th certification of the page is rendered.
GetTimeProgress(i) ==
    /\ i \in 1..Len(certs)
    /\ ret' = [op |-> "getTimeProgress", cert |-> certs[i], at |-> LocalNow,
               progress |-> getTimeProgress(certs[i], LocalNow)]
    /\ UNCHANGED <<certs, issued, users, now, tz, session, page>>

\* Certifications the store accepts: expiring after, on and before the day
\* of issue.
ProgressCandidates ==
    {ListCert([name |-> "AWS", issuingOrganization |-> "Amazon", credentialId |-> "X1"],
              i, e) : i \in {0, 1, 2}, e \in {0, 1, 2}}

InitProgress ==
    /\ certs \in ListsOf(ProgressCandidates)
    /\ issued = Len(certs)
    /\ users = NoUsers
    /\ now \in 0..MaxClock
    /\ tz \in (0 - MaxTz)..MaxTz
    /\ session = NoSession
    /\ page = NoPage
    /\ ret = NoRender

NextProgress ==
    \/ \E i \in 1..MaxList : GetTimeProgress(i)
    \/ ClockTick

SpecProgress == InitProgress /\ [][NextProgress]_vars

\* C30: getTimeProgress never divides by a validity period of zero days and
\* returns a number from 0 to 100, for every stored certification and every
\* value of the clock.
C30_ProgressInRange ==
    ret.op = "getTimeProgress" =>
        /\ ret.progress.totalDays # 0
        /\ ret.progress.value.kind = "number"
        /\ ret.progress.value.num >= 0
        /\ ret.progress.value.num <= 100 * ret.progress.value.den

\* A certification issued today that expires today: 0 / 0, the bar is NaN.
C30_Witness ==
    /\ ret.op = "getTimeProgress"
    /\ ret.cert.issueDate = ret.cert.expirationDate
    /\ ret.progress.totalDays = 0
    /\ ret.progress.elapsedDays = 0
    /\ ret.progress.value = NaN

----------------------------------------------------------------------------
(* Properties of the certification lists.                                  *)

\* Whether the last render kept the certification at index i of the list.
Included(i) == \E j \in 1..Len(ret.result) : ret.result[j].id = certs[i].id

\* The status filter as the specification states it.
StatedStatusFilter(statusFilter, d) ==
    CASE statusFilter = "active" -> d > 90
      [] statusFilter = "expiring" -> 0 <= d /\ d <= 90
      [] statusFilter = "expired" -> d < 0
      [] statusFilter = "all" -> TRUE

\* C11: a certification that passes the text match is listed exactly when its
\* day difference d satisfies the status filter: expiring is 0 <= d <= 90 (d = 0
\* included), active is d > 90, expired is d < 0, all is always.
C11_StatusFilter ==
    ret.op = "filteredCertifications" =>
        \A i \in 1..Len(certs) :
            ret.rows[i].matches =>
                (Included(i) <=> StatedStatusFilter(page.statusFilter, ret.rows[i].days))

\* A certification with d = 0 that matches the search is left out of the
\* expiring list.
C11_Witness ==
    /\ ret.op = "filteredCertifications"
    /\ page.statusFilter = "expiring"
    /\ \E i \in 1..Len(certs) :
          ret.rows[i].matches /\ ret.rows[i].days = 0 /\ ~Included(i)

EqualIgnoringCase(a, b) == a = b \/ <<a, b>> \in CasePairs \/ <<b, a>> \in CasePairs

\* sub occurs in text at some offset, letters compared without regard to case.
SubstringIgnoringCase(text, sub) ==
    \E o \in 0..(Len(text) - Len(sub)) :
        \A j \in 1..Len(sub) : EqualIgnoringCase(text[o + j], sub[j])

\* C12: the text match is true exactly when the search text is, ignoring case,
\* a substring of the name, of the issuing organization or of the credential
\* id; a certification without a credential id never matches through it.
C12_TextMatch ==
    ret.op = "filteredCertifications" =>
        \A i \in 1..Len(certs) :
            ret.rows[i].matches <=>
                \/ SubstringIgnoringCase(Chars(certs[i].name), Chars(page.search))
                \/ SubstringIgnoringCase(Chars(certs[i].issuingOrganization),
                                         Chars(page.search))
                \/ /\ certs[i].credentialId # Absent
                   /\ SubstringIgnoringCase(Chars(certs[i].credentialId),
                                            Chars(page.search))

C12_Witness ==
    /\ ret.op = "filteredCertifications"
    /\ page.search = "x1"
    /\ \E i \in 1..Len(certs) : certs[i].credentialId = Absent /\ ~ret.rows[i].matches
    /\ \E i \in 1..Len(certs) : certs[i].credentialId = "X1" /\ ret.rows[i].matches

\* The indexes of the list whose certification passes the text match and the
\* status filter the page applies to its day difference.
PassBoth ==
    {i \in 1..Len(certs) :
        ret.rows[i].matches /\ passesStatusFilter(page.statusFilter, ret.rows[i].days)}

\* C13: the filtered list is the sub-sequence of the list, order kept, of the
\* certifications that pass the text match and the status filter.
C13_FilterIsSubsequence ==
    ret.op = "filteredCertifications" =>
        /\ Len(ret.result) = Cardinality(PassBoth)
        /\ \A i \in PassBoth :
               ret.result[Cardinality({j \in PassBoth : j <= i})] = certs[i]

C13_Witness ==
    /\ ret.op = "filteredCertifications"
    /\ Len(certs) = 2
    /\ page.statusFilter = "expired"
    /\ page.search = "PM"
    /\ ret.rows[1].matches /\ ~ret.rows[1].passes
    /\ ret.result = <<certs[2]>>

InGroup(g, i) == \E j \in 1..Len(ret.groups[g]) : ret.groups[g][j] = i

\* The clock did not tick during the last pass.
OneNow == \A j1, j2 \in DOMAIN ret.reads : ret.reads[j1] = ret.reads[j2]

\* The group of a counting view that corresponds to a bucket of the classifier.
GroupOfBucket(op, bucket) ==
    CASE op = "categorizedCerts" ->
            (CASE bucket = "expired" -> "expired" [] bucket = "critical" -> "critical"
               [] bucket = "warning" -> "warning" [] bucket = "soon" -> "upcoming"
               [] bucket = "active" -> "none")
      [] op = "expiringStats" ->
            (CASE bucket = "expired" -> "expired" [] bucket = "critical" -> "within30"
               [] bucket = "warning" -> "within60" [] bucket = "soon" -> "within90"
               [] bucket = "active" -> "none")
      [] op = "dashboardStats" ->
            (CASE bucket = "expired" -> "expired" [] bucket = "active" -> "active"
               [] OTHER -> "expiringSoon")

\* C14: every counting view places a certification in the group of its
\* classifier bucket and in no other, for every day difference d; a
\* certification with d = 0 is counted as critical / expiring.
C14_CountsFollowClassifier ==
    (ret.op \in {"categorizedCerts", "expiringStats", "dashboardStats"} /\ OneNow) =>
        \A i \in 1..Len(certs) : \A g \in DOMAIN ret.groups :
            InGroup(g, i) <=> g = GroupOfBucket(ret.op, getStatusInfo(ret.days[i]).status)

\* A certification with d = 0 that the stat cards of the admin expiring
\* page count in no card.
C14_Witness ==
    /\ ret.op = "expiringStats"
    /\ OneNow
    /\ \E i \in 1..Len(certs) :
          ret.days[i] = 0 /\ \A g \in DOMAIN ret.groups : ~InGroup(g, i)

\* C15: within one pass of a view every certification is compared against
\* one and the same value of the clock.
C15_OneNowPerPass ==
    ret.op \in {"categorizedCerts", "expiringStats", "dashboardStats"} => OneNow

\* The clock ticked during a pass of the dashboard counts and one
\* certification is counted both as active and as expiring soon.
C15_Witness ==
    /\ ret.op = "dashboardStats"
    /\ \E i \in 1..Len(certs) : InGroup("active", i) /\ InGroup("expiringSoon", i)

\* C27: in a pass of the dashboard counts that sees one value of the clock,
\* every certification is counted in exactly one of active, expiringSoon and
\* expired, so the three counts add up to the total.
C27_StatusGroupsPartition ==
    (ret.op = "dashboardStats" /\ OneNow) =>
        /\ \A i \in 1..Len(certs) :
              Cardinality({g \in DOMAIN ret.groups : InGroup(g, i)}) = 1
        /\ Len(ret.groups.active) + Len(ret.groups.expiringSoon)
              + Len(ret.groups.expired) = Len(certs)

\* Two certifications, one expiring today: the three counts add up to one.
C27_Witness ==
    /\ ret.op = "dashboardStats"
    /\ OneNow
    /\ Len(certs) = 2
    /\ \E i \in 1..2 : ret.days[i] = 0
    /\ Len(ret.groups.active) + Len(ret.groups.expiringSoon)
          + Len(ret.groups.expired) = 1

\* The dates the last rendered lists are ordered by, ascending for the
\* expiration date and descending for the issue date.
OrderKey == IF ret.by = "issueDate" THEN Negated(IssueTimes) ELSE ExpirationTimes

\* C18: every renewal view lists its certifications by ascending expiration
\* date and every recent list by descending issue date, certifications of
\* equal date in the order of the store.
C18_ListsOrdered ==
    ret.op \in {"renewalSections", "getExpiringCerts", "upcomingRenewals",
                "expiringCertifications", "recentCerts"} =>
        \A l \in 1..Len(ret.lists) : \A j \in 1..(Len(ret.lists[l]) - 1) :
            \/ OrderKey[ret.lists[l][j]] < OrderKey[ret.lists[l][j + 1]]
            \/ /\ OrderKey[ret.lists[l][j]] = OrderKey[ret.lists[l][j + 1]]
               /\ ret.lists[l][j] < ret.lists[l][j + 1]

\* A section of the renewals page lists a later expiring certification
\* before an earlier expiring one.
C18_Witness ==
    /\ ret.op = "renewalSections"
    /\ \E l \in 1..Len(ret.lists) :
          /\ Len(ret.lists[l]) = 2
          /\ ExpirationTimes[ret.lists[l][1]] > ExpirationTimes[ret.lists[l][2]]

----------------------------------------------------------------------------
(* Properties of the certification repository.                             *)

\* What reading field f of object c yields: undefined when the key is missing.
Read(c, f) == IF c[f] = Absent THEN Undefined ELSE c[f]

HasId(cs, id) == \E i \in 1..Len(cs) : cs[i].id = id

\* The certifications of cs whose userId is u, in the order of cs.
OwnedBy(cs, u) == SelectSeq(cs, LAMBDA c : c.userId = u)

\* C3 as the claim states it: for every userId u, getCertificationsByUser(u)
\* returns exactly the certifications of getAllCertifications() whose userId
\* equals u, and the empty sequence when u is absent, null or empty.
C3_Original ==
    ret.op = "getByUser" =>
        /\ ret.status = "ok"
        /\ ret.value = OwnedBy(getAllCertifications(certs), ret.id)
        /\ (Falsy(ret.id) => ret.value = <<>>)

\* C3 amended: for every non-empty userId u, getCertificationsByUser(u) returns
\* exactly the certifications of getAllCertifications() whose userId equals u,
\* none missing, none extra, in store order; for an absent, undefined or empty
\* u it returns the empty sequence without error, also when the store holds
\* certifications whose userId is empty.
C3_ByUserExact ==
    ret.op = "getByUser" =>
        /\ ret.status = "ok"
        /\ IF Falsy(ret.id)
           THEN ret.value = <<>>
           ELSE /\ ret.value = OwnedBy(getAllCertifications(certs), ret.id)
                /\ \A i \in 1..Len(ret.value) : ret.value[i].userId = ret.id
                /\ Len(ret.value) =
                     Cardinality({i \in 1..Len(certs) : certs[i].userId = ret.id})

C3_Witness ==
    /\ ret.op = "getByUser"
    /\ ret.id = "3"
    /\ Len(ret.value) = 1
    /\ Len(certs) = 2

\* C4: after createCertification(data) the store contains the returned record,
\* its id differs from the id of every certification that was in the store
\* before the call, and every certification that was in the store before the
\* call is still there, unchanged and in its place.
C4_CreateFresh ==
    [][ret'.op = "create" =>
        /\ ret'.status = "ok"
        /\ Len(ret'.value) = 1
        /\ \E i \in 1..Len(certs') : certs'[i] = ret'.value[1]
        /\ \A i \in 1..Len(certs) : certs[i].id # ret'.value[1].id
        /\ Len(certs') = Len(certs) + 1
        /\ \A i \in 1..Len(certs) : certs'[i] = certs[i]]_vars

C4_Witness ==
    /\ ret.op = "create"
    /\ Len(certs) = 2
    /\ issued = 3

\* C5: for an id in the store, updateCertification(id, partial) changes only
\* the fields named in partial on the record with that id: the fields not
\* named keep their value, the fields named read as the new value, and every
\* other record of the store is unchanged.
C5_UpdateMerges ==
    [][(ret'.op = "update" /\ HasId(certs, ret'.id)) =>
        /\ ret'.status = "ok"
        /\ Len(certs') = Len(certs)
        /\ \E idx \in 1..Len(certs) :
             /\ certs[idx].id = ret'.id
             /\ \A f \in CertFields :
                  IF ret'.data[f] = Absent
                  THEN certs'[idx][f] = certs[idx][f]
                  ELSE Read(certs'[idx], f) = Read(ret'.data, f)
             /\ \A j \in 1..Len(certs) : j # idx => certs'[j] = certs[j]
             /\ \A f \in CertFields : Read(ret'.value[1], f) = Read(certs'[idx], f)]_vars

C5_Witness ==
    /\ ret.op = "update"
    /\ ret.status = "ok"
    /\ ret.data = [NoData EXCEPT !.expirationDate = DateStr(2)]
    /\ Len(certs) = 2
    /\ \E i \in 1..2 :
         /\ certs[i].id = ret.id
         /\ certs[i].expirationDate = DateStr(2)
         /\ certs[i].name = "AWS"
         /\ certs[i].userId = "2"

\* C6: updateCertification(id, partial) with an id that is not in the store
\* fails with a Not-found error and leaves the stored collection as it was.
C6_UpdateMissing ==
    [][(ret'.op = "update" /\ ~HasId(certs, ret'.id)) =>
        /\ ret'.status = "error"
        /\ ret'.error = "Not found"
        /\ certs' = certs]_vars

C6_Witness ==
    /\ ret.op = "update"
    /\ ret.status = "error"
    /\ ret.id = MissingId
    /\ Len(certs) = 2

\* C7: after deleteCertification(id) the store holds no record with that id and
\* keeps every other record; deleting an id that is not in the store (a second
\* delete, or an id never present) does not throw and leaves the store as it was.
C7_DeleteIdempotent ==
    [][ret'.op = "delete" =>
        /\ ret'.status = "ok"
        /\ ~HasId(certs', ret'.id)
        /\ certs' = SelectSeq(certs, LAMBDA c : c.id # ret'.id)
        /\ (~HasId(certs, ret'.id) => certs' = certs)]_vars

C7_Witness ==
    /\ ret.op = "delete"
    /\ ~HasId(certs, ret.id)
    /\ ret.id \in IssuedIds
    /\ Len(certs) = 1
    /\ issued = 2

\* C17: the record createCertification returns and stores has credentialId,
\* certificateUrl and notes equal to the empty string when the input lacks
\* them, and has name, issuingOrganization, issueDate, expirationDate and
\* userId present.
C17_CreateDefaults ==
    [][ret'.op = "create" =>
        /\ \E i \in 1..Len(certs') : certs'[i] = ret'.value[1]
        /\ \A f \in {"credentialId", "certificateUrl", "notes"} :
               ret'.data[f] \in {Absent, Undefined} => ret'.value[1][f] = ""
        /\ \A f \in {"name", "issuingOrganization", "issueDate", "expirationDate",
                      "userId"} :
               ret'.value[1][f] \notin {Absent, Undefined}]_vars

\* A certification created from empty input: credentialId is "", while
\* certificateUrl and notes are not in the record.
C17_Witness ==
    /\ ret.op = "create"
    /\ ret.data = NoData
    /\ ret.value[1].credentialId = ""
    /\ ret.value[1].certificateUrl = Absent
    /\ ret.value[1].notes = Absent

\* C25: the ids of the stored certifications are pairwise distinct, and an
\* update leaves the id of every stored record as it was, also when the
\* partial passed to updateCertification names an id.
C25_IdsDistinctStable ==
    [][/\ \A i, j \in 1..Len(certs') : i # j => certs'[i].id # certs'[j].id
       /\ ret'.op = "update" =>
            /\ Len(certs') = Len(certs)
            /\ \A i \in 1..Len(certs) : certs'[i].id = certs[i].id]_vars

\* The second certification was updated with a partial naming the id of the
\* first: two stored records have the same id.
C25_Witness ==
    /\ ret.op = "update"
    /\ ret.status = "ok"
    /\ ret.id = uuidv4(2)
    /\ ret.data.id = uuidv4(1)
    /\ Len(certs) = 2
    /\ certs[1].id = uuidv4(1)
    /\ certs[2].id = uuidv4(1)

\* C29: after createCertification(data) the stored record has, for each of
\* userId, name, issuingOrganization, issueDate, expirationDate,
\* credentialId, certificateUrl and notes that data holds non-empty, the
\* value data holds.
C29_CreateStoresInput ==
    [][ret'.op = "create" =>
        \E i \in 1..Len(certs') :
            /\ certs'[i].id = ret'.value[1].id
            /\ \A f \in CertFields \ {"id"} :
                   ~Falsy(ret'.data[f]) => certs'[i][f] = ret'.data[f]]_vars

\* A certification created with a certificate URL and notes: the stored
\* record has the other fields of the input and neither of the two.
C29_Witness ==
    /\ ret.op = "create"
    /\ ret.data.certificateUrl = "http://c"
    /\ ret.data.notes = "n"
    /\ \E i \in 1..Len(certs) :
          /\ certs[i].id = ret.value[1].id
          /\ certs[i].credentialId = "X1"
          /\ certs[i].certificateUrl = Absent
          /\ certs[i].notes = Absent

====
